---- MODULE Spec2Model ----
(***************************************************************************)
(* A model of ampere/pkb/providers/oci/oci_network.py: the OciVcn resource *)
(* (creation steps, lifecycle waits, route table and security list edits), *)
(* the OciNetwork orchestrator (Create under vm_util.Retry, Delete) and    *)
(* the OCIFirewall facade (AllowPort, AllowIcmp).                          *)
(*                                                                         *)
(* The OCI control plane is the environment: it holds the resources, their *)
(* lifecycle states, the route rules and the ingress rules.  A resource    *)
(* that was just created or updated is PROVISIONING and becomes AVAILABLE  *)
(* at some later moment (Settle).  Commands of the creation path succeed;  *)
(* the forced commands of the teardown may fail.                           *)
(*                                                                         *)
(* Python's None is the empty tuple, a present value x is <<x>>.           *)
(***************************************************************************)
EXTENDS Integers, Sequences, FiniteSets, TLC

VARIABLES
    use_vcn,      \* FLAGS.oci_use_vcn as read by OciNetwork.__init__
    vcn,          \* the fields of the OciVcn object
    network_id,   \* OciNetwork.network_id
    lifecycle,    \* control plane: resource id -> lifecycle-state
    route_rules,  \* control plane: route rules of the default route table
    ingress,      \* control plane: ingress-security-rules of the default security list
    issued,       \* control plane: how many ids of each kind were handed out
    pc,           \* position of the orchestrator's thread
    call,         \* the top-level call that is running (or ran last)
    tries,        \* vm_util.Retry around Create: executions of the body so far
    polls,        \* vm_util.Retry around a wait: polls made by the running wait
    exc,          \* the exception travelling up to Create's retry wrapper
    oplog,        \* control-plane requests issued by the running top-level call
    hist,         \* completed top-level calls with their outcome
    faulted,      \* some command was failed by the control plane
    waited,       \* the outcome of the wait that finished last
    mismatch,     \* pass of Create in which a wait last failed (0: none)
    ed,           \* per caller: locals of AddSecurityListIngressRule
    invoked,      \* direct AddSecurityListIngressRule calls, in call order
    overlap       \* some direct call fetched while another was between fetch and write

vars == <<use_vcn, vcn, network_id, lifecycle, route_rules, ingress, issued, pc,
          call, tries, polls, exc, oplog, hist, faulted, waited, mismatch, ed,
          invoked, overlap>>

-----------------------------------------------------------------------------
(* Bounds of the model *)

\* executions of Create's body that fit before the deadline of its retry wrapper
MaxTries == 2
\* polls of a retried wait that fit before the deadline of its retry wrapper
MaxPolls == 2
\* top-level calls made on one network
MaxCalls == 3
\* direct AddSecurityListIngressRule calls
MaxEdits == 2

-----------------------------------------------------------------------------
(* Values *)

None == <<>>
Some(x) == <<x>>
NULL == <<>>

\* Python truthiness of an optional int and of an optional str
TruthyInt(o) == o # None /\ o[1] # 0
TruthyStr(o) == o # None /\ o[1] # ""

Id(kind, n) == <<kind, n>>

AnyCidr == "0.0.0.0/0"
VcnCidr == "172.16.0.0/16"

Callers == {"main", "peer"}

\* the only status list Create and the firewall pass to a wait
AVAILABLE_ONLY == {"AVAILABLE"}

\* the module's status sets for the network and the subnet; no call uses them
VCN_CREATE_STATUSES ==
    {"AVAILABLE", "PROVISIONING", "TERMINATED", "TERMINATING", "UPDATING"}
SUBNET_CREATE_STATUSES ==
    {"AVAILABLE", "PROVISIONING", "TERMINATED", "TERMINATING", "UPDATING"}

\* the wait methods decorated with vm_util.Retry
Retried == {"WaitForVcnStatus", "WaitForSubnetStatus"}

-----------------------------------------------------------------------------
(* AddSecurityListIngressRule: building the rule                           *)

\* the keyword arguments of one call
Args(protocol, start_port, end_port, source_range, protocol_type, protocol_code) ==
    [protocol |-> protocol, start_port |-> start_port, end_port |-> end_port,
     source_range |-> source_range, protocol_type |-> protocol_type,
     protocol_code |-> protocol_code]

\* end_port after "if not end_port: end_port = start_port"
EndPort(a) == IF ~TruthyInt(a.end_port) THEN a.start_port ELSE a.end_port

\* source_range after "source_range or '0.0.0.0/0'"
SourceRange(a) == IF TruthyStr(a.source_range) THEN a.source_range[1] ELSE AnyCidr

\* a rule builder that forgets to drop the start port of an ICMP call
StartPortKept(a) == a.start_port

\* start_port after the protocol branch: ICMP drops it
StartPort(a) == IF a.protocol = "1" THEN None ELSE a.start_port

\* the icmp-options piece of the JSON text: None stands for the text null,
\* otherwise the two interpolated str() values, where a value of None stands
\* for the four letters None that str(None) puts into the text
IcmpOptionsText(a) ==
    IF a.protocol = "1"
    THEN IF a.protocol_type = None /\ a.protocol_code = None
         THEN None
         ELSE Some([code |-> a.protocol_code, type |-> a.protocol_type])
    ELSE None

\* the tcp-options piece of the JSON text
TcpOptionsText(a) ==
    IF TruthyInt(StartPort(a))
    THEN Some([max |-> EndPort(a), min |-> StartPort(a)])
    ELSE None

\* json.loads accepts a str() value only if it is a number
JsonNumber(tok) == tok # None

\* whether json.loads(rule_json_string) parses
JsonLoadsOk(a) ==
    /\ IcmpOptionsText(a) # None =>
           /\ JsonNumber(IcmpOptionsText(a)[1].code)
           /\ JsonNumber(IcmpOptionsText(a)[1].type)
    /\ TcpOptionsText(a) # None =>
           /\ JsonNumber(TcpOptionsText(a)[1].max)
           /\ JsonNumber(TcpOptionsText(a)[1].min)

\* json.loads(rule_json_string) of a text that parses
BuildRule(a) ==
    [source       |-> SourceRange(a),
     icmp_options |-> IF IcmpOptionsText(a) = None THEN None
                      ELSE Some([code |-> IcmpOptionsText(a)[1].code[1],
                                 type |-> IcmpOptionsText(a)[1].type[1]]),
     protocol     |-> a.protocol,
     is_stateless |-> FALSE,
     tcp_options  |-> IF TcpOptionsText(a) = None THEN None
                      ELSE Some([max |-> TcpOptionsText(a)[1].max[1],
                                 min |-> TcpOptionsText(a)[1].min[1]]),
     udp_options  |-> None]

-----------------------------------------------------------------------------
(* The control plane                                                       *)

Put(f, k, v) == [x \in DOMAIN f \cup {k} |-> IF x = k THEN v ELSE f[x]]
Remove(f, ks) == [x \in DOMAIN f \ ks |-> f[x]]
Exists(id) == id \in DOMAIN lifecycle

\* ids of one kind that the control plane holds
Held(kind) == {id \in DOMAIN lifecycle : id[1] = kind}

\* the default route table and security list that come with a network
DefaultRt(vcn_id) == Id("rt", vcn_id[2])
DefaultSl(vcn_id) == Id("sl", vcn_id[2])

\* a request of the running call, as the control plane sees it
Log(op, by, id) == Append(oplog, [op |-> op, by |-> by, id |-> id])

\* a resource that was created or updated finishes provisioning
Settle(id) ==
    /\ Exists(id)
    /\ lifecycle[id] = "PROVISIONING"
    /\ lifecycle' = [lifecycle EXCEPT ![id] = "AVAILABLE"]
    /\ UNCHANGED <<use_vcn, vcn, network_id, route_rules, ingress, issued, pc,
                   call, tries, polls, exc, oplog, hist, faulted, waited,
                   mismatch, ed, invoked, overlap>>

-----------------------------------------------------------------------------
(* Construction                                                            *)

\* OciVcn.__init__
NewVcn ==
    [status |-> None, cidr_block |-> None, vcn_id |-> NULL, subnet_id |-> NULL,
     ig_id |-> NULL, rt_id |-> NULL, security_list_id |-> NULL,
     created |-> FALSE]

\* OciNetwork.__init__ sets self.vcn only when use_vcn is set; otherwise the
\* object has no attribute vcn and reading it raises AttributeError
HasVcnAttr == use_vcn

NoArgs == Args("", None, None, None, None, None)
NoEdit == [at |-> "idle", args |-> NoArgs, current_security_rules |-> <<>>,
           exc |-> "none"]

\* the network "net-A" with subnet "sub-1" that exists before the run when
\* the toolkit is told to attach to a network instead of creating one
PreExisting ==
    [x \in {Id("vcn", 1), Id("subnet", 1), Id("ig", 1), Id("rt", 1), Id("sl", 1)}
       |-> "AVAILABLE"]

Init ==
    /\ use_vcn \in BOOLEAN
    /\ vcn = NewVcn
    /\ network_id = NULL
    /\ lifecycle = IF use_vcn THEN [x \in {} |-> "AVAILABLE"] ELSE PreExisting
    /\ route_rules = IF use_vcn THEN <<>>
                     ELSE <<[cidrBlock |-> AnyCidr, networkEntityId |-> Id("ig", 1)]>>
    /\ ingress = <<>>
    /\ issued = IF use_vcn THEN [vcn |-> 0, subnet |-> 0, ig |-> 0]
                ELSE [vcn |-> 1, subnet |-> 1, ig |-> 1]
    /\ pc = "idle"
    /\ call = "none"
    /\ tries = 0
    /\ polls = 0
    /\ exc = "none"
    /\ oplog = <<>>
    /\ hist = <<>>
    /\ faulted = FALSE
    /\ waited = [by |-> "none", polls |-> 0, outcome |-> "none"]
    /\ mismatch = 0
    /\ ed = [c \in Callers |-> NoEdit]
    /\ invoked = <<>>
    /\ overlap = FALSE

-----------------------------------------------------------------------------
(* How a call of the orchestrator's thread ends or fails                   *)

\* the first statement of Create's body, "if self.use_vcn"
CreateEntry == IF use_vcn THEN "c_vcn_create" ELSE "c_else"

CreateInvoked == \E i \in 1..Len(hist) : hist[i].call = "Create"

\* an exception leaves the running step: inside Create it reaches the retry
\* wrapper, inside any other call it reaches the caller
Raise(e) ==
    IF call = "Create"
    THEN /\ pc' = "c_except"
         /\ exc' = e
         /\ hist' = hist
    ELSE /\ pc' = "idle"
         /\ exc' = "none"
         /\ hist' = Append(hist, [call |-> call, exc |-> e])

\* the running call returns to its caller
Return ==
    /\ pc' = "idle"
    /\ exc' = "none"
    /\ hist' = Append(hist, [call |-> call, exc |-> "none"])

\* the running call goes on with its next statement
Goto(next) ==
    /\ pc' = next
    /\ exc' = exc
    /\ hist' = hist

-----------------------------------------------------------------------------
(* The lifecycle waits                                                     *)

\* one poll of a wait method: the command fails on an unknown id; the assert
\* passes when the state is in status_list; a failed assert is retried only
\* under the method's own vm_util.Retry, while polls fit before its deadline
\* a poll that accepts every state of the module's status set
WaitOutcomeAnyRecognized(by, id, status_list) ==
    IF ~Exists(id) THEN "CommandError"
    ELSE IF lifecycle[id] \in VCN_CREATE_STATUSES THEN "ok"
    ELSE IF by \in Retried /\ polls + 1 < MaxPolls THEN "again"
    ELSE "AssertionError"

WaitOutcome(by, id, status_list) ==
    IF ~Exists(id) THEN "CommandError"
    ELSE IF lifecycle[id] \in status_list THEN "ok"
    ELSE IF by \in Retried /\ polls + 1 < MaxPolls THEN "again"
    ELSE "AssertionError"

\* a wait whose failed assert does not stop the caller
AfterWaitSwallowed(o, next) ==
    IF o = "again" THEN Goto(pc)
    ELSE IF next = "idle" THEN Return ELSE Goto(next)

\* where the thread is after a poll with outcome o
AfterWait(o, next) ==
    IF o = "ok" THEN (IF next = "idle" THEN Return ELSE Goto(next))
    ELSE IF o = "again" THEN Goto(pc)
    ELSE Raise(o)

WaitStep(by, op, id, next) ==
    LET o == WaitOutcome(by, id, AVAILABLE_ONLY) IN
    /\ oplog' = Log(op, by, id)
    /\ vcn' = IF Exists(id) THEN [vcn EXCEPT !.status = Some(lifecycle[id])] ELSE vcn
    /\ polls' = IF o = "again" THEN polls + 1 ELSE 0
    /\ waited' = IF o = "again" THEN waited
                 ELSE [by |-> by, polls |-> polls + 1, outcome |-> o]
    /\ mismatch' = IF o = "AssertionError" /\ call = "Create" THEN tries ELSE mismatch
    /\ AfterWait(o, next)
    /\ UNCHANGED <<use_vcn, lifecycle, route_rules, ingress, issued, call, tries,
                   faulted, ed, invoked, overlap>>

WaitForVcnStatus ==
    /\ pc = "c_vcn_wait"
    /\ WaitStep("WaitForVcnStatus", "vcn get", vcn.vcn_id, "c_get_rt")
    /\ UNCHANGED network_id

\* followed in Create by "self.network_id = self.vcn.subnet_id"
WaitForSubnetStatus ==
    /\ pc = "c_subnet_wait"
    /\ WaitStep("WaitForSubnetStatus", "subnet get", vcn.subnet_id, "c_ig_create")
    /\ network_id' = IF WaitOutcome("WaitForSubnetStatus", vcn.subnet_id, AVAILABLE_ONLY) = "ok"
                     THEN vcn.subnet_id ELSE network_id

WaitForInternetGatewayStatus ==
    /\ pc = "c_ig_wait"
    /\ WaitStep("WaitForInternetGatewayStatus", "internet-gateway get", vcn.ig_id,
                "c_rt_update")
    /\ UNCHANGED network_id

\* called by Create after UpdateRouteTable, and by AllowPort and AllowIcmp
WaitForRouteTableStatus ==
    /\ pc \in {"c_rt_wait", "f_rt_wait"}
    /\ WaitStep("WaitForRouteTableStatus", "route-table get", vcn.rt_id,
                IF pc = "c_rt_wait" THEN "c_tcp_fetch" ELSE "idle")
    /\ UNCHANGED network_id

\* called by Create after each of its two rule additions
WaitForSecurityListStatus ==
    /\ pc \in {"c_sl_wait1", "c_sl_wait2"}
    /\ WaitStep("WaitForSecurityListStatus", "security-list get", vcn.security_list_id,
                IF pc = "c_sl_wait1" THEN "c_icmp_fetch" ELSE "idle")
    /\ UNCHANGED network_id

-----------------------------------------------------------------------------
(* AddSecurityListIngressRule: read, append, write the whole list back     *)

\* GetSecurityListFromId: the ingress rules the control plane returns
GetSecurityListFromId == ingress

\* arguments and fetched list are the locals of caller c from here on
Fetched(c, a) ==
    [ed EXCEPT ![c] = [at |-> "fetched", args |-> a,
                       current_security_rules |-> GetSecurityListFromId,
                       exc |-> "none"]]

\* an editor that appends to the list as it is at the time of the write
WrittenRulesOnCurrent(c) == Append(ingress, BuildRule(ed[c].args))

\* current_security_rules after the append: the list sent with the update
WrittenRules(c) == Append(ed[c].current_security_rules, BuildRule(ed[c].args))

\* the second half of the method for caller c: json.loads of the rule text,
\* the append, and the forced update whose result is not looked at
WriteBack(c) ==
    LET sl == vcn.security_list_id IN
    IF JsonLoadsOk(ed[c].args)
    THEN /\ ingress' = IF Exists(sl) THEN WrittenRules(c) ELSE ingress
         /\ lifecycle' = IF Exists(sl) THEN [lifecycle EXCEPT ![sl] = "PROVISIONING"]
                         ELSE lifecycle
         /\ ed' = [ed EXCEPT ![c].at = "idle", ![c].exc = "none"]
    ELSE /\ ingress' = ingress
         /\ lifecycle' = lifecycle
         /\ ed' = [ed EXCEPT ![c].at = "idle", ![c].exc = "JSONDecodeError"]

\* the fetch of the orchestrator's thread, at any of its three call sites
MainFetch(a, next) ==
    /\ oplog' = Log("security-list get", "GetSecurityListFromId", vcn.security_list_id)
    /\ IF Exists(vcn.security_list_id)
       THEN /\ ed' = Fetched("main", a)
            /\ Goto(next)
       ELSE /\ ed' = ed
            /\ Raise("JSONDecodeError")
    /\ UNCHANGED <<use_vcn, vcn, network_id, lifecycle, route_rules, ingress, issued,
                   call, tries, polls, faulted, waited, mismatch, invoked, overlap>>

\* the write of the orchestrator's thread
MainWrite(next) ==
    /\ WriteBack("main")
    /\ IF JsonLoadsOk(ed["main"].args)
       THEN /\ oplog' = Log("security-list update", "AddSecurityListIngressRule",
                            vcn.security_list_id)
            /\ Goto(next)
       ELSE /\ oplog' = oplog
            /\ Raise("JSONDecodeError")
    /\ UNCHANGED <<use_vcn, vcn, network_id, route_rules, issued, call, tries, polls,
                   faulted, waited, mismatch, invoked, overlap>>

-----------------------------------------------------------------------------
(* OciNetwork.Create                                                       *)

\* the caller invokes Create; vm_util.Retry runs the body for the first time
InvokeCreate ==
    /\ pc = "idle"
    /\ ~CreateInvoked
    /\ Len(hist) < MaxCalls
    /\ call' = "Create"
    /\ pc' = CreateEntry
    /\ tries' = 1
    /\ polls' = 0
    /\ exc' = "none"
    /\ oplog' = <<>>
    /\ mismatch' = 0
    /\ UNCHANGED <<use_vcn, vcn, network_id, lifecycle, route_rules, ingress, issued,
                   hist, faulted, waited, ed, invoked, overlap>>

\* self.vcn.Create(): the resource base class runs _Create unless the
\* resource is already marked created
VcnCreate ==
    /\ pc = "c_vcn_create"
    /\ IF vcn.created
       THEN UNCHANGED <<vcn, lifecycle, issued, oplog>>
       ELSE LET id == Id("vcn", issued.vcn + 1) IN
            /\ lifecycle' = Put(Put(Put(lifecycle, id, "PROVISIONING"),
                                    DefaultRt(id), "AVAILABLE"),
                                DefaultSl(id), "AVAILABLE")
            /\ issued' = [issued EXCEPT !.vcn = @ + 1]
            /\ vcn' = [vcn EXCEPT !.vcn_id = id, !.cidr_block = Some(VcnCidr),
                                  !.created = TRUE]
            /\ oplog' = Log("vcn create", "_Create", NULL)
    /\ Goto("c_vcn_wait")
    /\ UNCHANGED <<use_vcn, network_id, route_rules, ingress, call, tries, polls,
                   faulted, waited, mismatch, ed, invoked, overlap>>

GetDefaultRouteTableId ==
    /\ pc = "c_get_rt"
    /\ oplog' = Log("vcn get", "GetDefaultRouteTableId", vcn.vcn_id)
    /\ IF Exists(vcn.vcn_id)
       THEN /\ vcn' = [vcn EXCEPT !.rt_id = DefaultRt(vcn.vcn_id)]
            /\ Goto("c_get_sl")
       ELSE /\ vcn' = vcn
            /\ Raise("IssueCommandError")
    /\ UNCHANGED <<use_vcn, network_id, lifecycle, route_rules, ingress, issued, call,
                   tries, polls, faulted, waited, mismatch, ed, invoked, overlap>>

\* a read of the default security list that does not keep the id it got
GetDefaultSecurityListIdUnrecorded ==
    /\ pc = "c_get_sl"
    /\ oplog' = Log("vcn get", "GetDefaultSecurityListId", vcn.vcn_id)
    /\ IF Exists(vcn.vcn_id) THEN Goto("c_subnet_create") ELSE Raise("IssueCommandError")
    /\ UNCHANGED <<use_vcn, vcn, network_id, lifecycle, route_rules, ingress, issued, call,
                   tries, polls, faulted, waited, mismatch, ed, invoked, overlap>>

GetDefaultSecurityListId ==
    /\ pc = "c_get_sl"
    /\ oplog' = Log("vcn get", "GetDefaultSecurityListId", vcn.vcn_id)
    /\ IF Exists(vcn.vcn_id)
       THEN /\ vcn' = [vcn EXCEPT !.security_list_id = DefaultSl(vcn.vcn_id)]
            /\ Goto("c_subnet_create")
       ELSE /\ vcn' = vcn
            /\ Raise("IssueCommandError")
    /\ UNCHANGED <<use_vcn, network_id, lifecycle, route_rules, ingress, issued, call,
                   tries, polls, faulted, waited, mismatch, ed, invoked, overlap>>

\* a subnet creation after which Create does not wait for the subnet
CreateSubnetUnwaited ==
    /\ pc = "c_subnet_create"
    /\ LET id == Id("subnet", issued.subnet + 1) IN
       /\ lifecycle' = Put(lifecycle, id, "PROVISIONING")
       /\ issued' = [issued EXCEPT !.subnet = @ + 1]
       /\ vcn' = [vcn EXCEPT !.subnet_id = id]
    /\ oplog' = Log("subnet create", "CreateSubnet", vcn.vcn_id)
    /\ Goto("c_ig_create")
    /\ UNCHANGED <<use_vcn, network_id, route_rules, ingress, call, tries, polls,
                   faulted, waited, mismatch, ed, invoked, overlap>>

CreateSubnet ==
    /\ pc = "c_subnet_create"
    /\ LET id == Id("subnet", issued.subnet + 1) IN
       /\ lifecycle' = Put(lifecycle, id, "PROVISIONING")
       /\ issued' = [issued EXCEPT !.subnet = @ + 1]
       /\ vcn' = [vcn EXCEPT !.subnet_id = id]
    /\ oplog' = Log("subnet create", "CreateSubnet", vcn.vcn_id)
    /\ Goto("c_subnet_wait")
    /\ UNCHANGED <<use_vcn, network_id, route_rules, ingress, call, tries, polls,
                   faulted, waited, mismatch, ed, invoked, overlap>>

CreateInternetGateway ==
    /\ pc = "c_ig_create"
    /\ LET id == Id("ig", issued.ig + 1) IN
       /\ lifecycle' = Put(lifecycle, id, "PROVISIONING")
       /\ issued' = [issued EXCEPT !.ig = @ + 1]
       /\ vcn' = [vcn EXCEPT !.ig_id = id]
    /\ oplog' = Log("internet-gateway create", "CreateInternetGateway", vcn.vcn_id)
    /\ Goto("c_ig_wait")
    /\ UNCHANGED <<use_vcn, network_id, route_rules, ingress, call, tries, polls,
                   faulted, waited, mismatch, ed, invoked, overlap>>

\* a route table update that adds the default route to the rules in place
UpdateRouteTableAppending ==
    /\ pc = "c_rt_update"
    /\ oplog' = Log("route-table update", "UpdateRouteTable", vcn.rt_id)
    /\ IF Exists(vcn.rt_id)
       THEN /\ route_rules' = Append(route_rules, [cidrBlock |-> AnyCidr,
                                                    networkEntityId |-> vcn.ig_id])
            /\ lifecycle' = [lifecycle EXCEPT ![vcn.rt_id] = "PROVISIONING"]
       ELSE UNCHANGED <<route_rules, lifecycle>>
    /\ Goto("c_rt_wait")
    /\ UNCHANGED <<use_vcn, vcn, network_id, ingress, issued, call, tries, polls,
                   faulted, waited, mismatch, ed, invoked, overlap>>

\* the forced update replaces the whole rule list by one default route
UpdateRouteTable ==
    /\ pc = "c_rt_update"
    /\ oplog' = Log("route-table update", "UpdateRouteTable", vcn.rt_id)
    /\ IF Exists(vcn.rt_id)
       THEN /\ route_rules' = <<[cidrBlock |-> AnyCidr, networkEntityId |-> vcn.ig_id]>>
            /\ lifecycle' = [lifecycle EXCEPT ![vcn.rt_id] = "PROVISIONING"]
       ELSE UNCHANGED <<route_rules, lifecycle>>
    /\ Goto("c_rt_wait")
    /\ UNCHANGED <<use_vcn, vcn, network_id, ingress, issued, call, tries, polls,
                   faulted, waited, mismatch, ed, invoked, overlap>>

\* AddSecurityListIngressRule(protocol="6", start_port=22)
CreateAddTcpFetch ==
    /\ pc = "c_tcp_fetch"
    /\ MainFetch(Args("6", Some(22), None, None, None, None), "c_tcp_write")

CreateAddTcpWrite ==
    /\ pc = "c_tcp_write"
    /\ MainWrite("c_sl_wait1")

\* AddSecurityListIngressRule(protocol="1"), start_port keeping its default
CreateAddIcmpFetch ==
    /\ pc = "c_icmp_fetch"
    /\ MainFetch(Args("1", Some(22), None, None, None, None), "c_icmp_write")

CreateAddIcmpWrite ==
    /\ pc = "c_icmp_write"
    /\ MainWrite("c_sl_wait2")

\* the else branch: GetVcnIDFromName, GetSubnetIdFromVCNId and the
\* assignment of network_id, all behind the read of self.vcn
CreateElse ==
    /\ pc = "c_else"
    /\ IF ~HasVcnAttr
       THEN /\ Raise("AttributeError")
            /\ UNCHANGED <<vcn, network_id, oplog>>
       ELSE IF Held("vcn") = {} \/ Held("subnet") = {}
       THEN /\ Raise("IndexError")
            /\ UNCHANGED <<vcn, network_id>>
            /\ oplog' = Log("vcn list", "GetVcnIDFromName", NULL)
       ELSE LET v == CHOOSE x \in Held("vcn") : \A y \in Held("vcn") : x[2] <= y[2]
                u == CHOOSE x \in Held("subnet") : \A y \in Held("subnet") : x[2] <= y[2]
            IN /\ vcn' = [vcn EXCEPT !.vcn_id = v, !.subnet_id = u]
               /\ network_id' = u
               /\ oplog' = Append(Log("vcn list", "GetVcnIDFromName", NULL),
                                  [op |-> "subnet list", by |-> "GetSubnetIdFromVCNId",
                                   id |-> v])
               /\ Return
    /\ UNCHANGED <<use_vcn, lifecycle, route_rules, ingress, issued, call, tries, polls,
                   faulted, waited, mismatch, ed, invoked, overlap>>

\* vm_util.Retry around Create: the exception is caught and the body runs again
CreateRetry ==
    /\ pc = "c_except"
    /\ tries < MaxTries
    /\ tries' = tries + 1
    /\ pc' = CreateEntry
    /\ exc' = "none"
    /\ polls' = 0
    /\ UNCHANGED <<use_vcn, vcn, network_id, lifecycle, route_rules, ingress, issued,
                   call, oplog, hist, faulted, waited, mismatch, ed, invoked, overlap>>

\* vm_util.Retry around Create: the deadline has passed, the exception is raised
CreateGiveUp ==
    /\ pc = "c_except"
    /\ tries >= MaxTries
    /\ pc' = "idle"
    /\ hist' = Append(hist, [call |-> "Create", exc |-> exc])
    /\ exc' = "none"
    /\ UNCHANGED <<use_vcn, vcn, network_id, lifecycle, route_rules, ingress, issued,
                   call, tries, polls, oplog, faulted, waited, mismatch, ed, invoked,
                   overlap>>

-----------------------------------------------------------------------------
(* OciNetwork.Delete                                                       *)

\* a Delete that runs its four steps whatever use_vcn is
InvokeDeleteUnguarded ==
    /\ pc = "idle"
    /\ CreateInvoked
    /\ Len(hist) < MaxCalls
    /\ call' = "Delete"
    /\ oplog' = <<>>
    /\ pc' = "d_clear_rt"
    /\ UNCHANGED <<use_vcn, vcn, network_id, lifecycle, route_rules, ingress, issued,
                   tries, polls, exc, hist, faulted, waited, mismatch, ed, invoked,
                   overlap>>

\* the caller invokes Delete; without use_vcn the body does nothing
InvokeDelete ==
    /\ pc = "idle"
    /\ CreateInvoked
    /\ Len(hist) < MaxCalls
    /\ call' = "Delete"
    /\ oplog' = <<>>
    /\ IF use_vcn
       THEN /\ pc' = "d_clear_rt"
            /\ UNCHANGED <<exc, hist>>
       ELSE /\ pc' = "idle"
            /\ exc' = "none"
            /\ hist' = Append(hist, [call |-> "Delete", exc |-> "none"])
    /\ UNCHANGED <<use_vcn, vcn, network_id, lifecycle, route_rules, ingress, issued,
                   tries, polls, faulted, waited, mismatch, ed, invoked, overlap>>

\* the forced update to an empty rule list; its result is not looked at
ClearRouteTable ==
    /\ pc = "d_clear_rt"
    /\ oplog' = Log("route-table update", "ClearRouteTable", vcn.rt_id)
    /\ \E ok \in BOOLEAN :
         /\ faulted' = (faulted \/ ~ok)
         /\ IF ok /\ Exists(vcn.rt_id)
            THEN /\ route_rules' = <<>>
                 /\ lifecycle' = [lifecycle EXCEPT ![vcn.rt_id] = "PROVISIONING"]
            ELSE UNCHANGED <<route_rules, lifecycle>>
    /\ Goto("d_delete_ig")
    /\ UNCHANGED <<use_vcn, vcn, network_id, ingress, issued, call, tries, polls,
                   waited, mismatch, ed, invoked, overlap>>

\* a gateway delete whose failure is raised to the caller of Delete
DeleteInternetGatewayRaising ==
    /\ pc = "d_delete_ig"
    /\ oplog' = Log("internet-gateway delete", "DeleteInternetGateway", vcn.ig_id)
    /\ \E ok \in BOOLEAN :
         /\ faulted' = (faulted \/ ~ok)
         /\ lifecycle' = IF ok THEN Remove(lifecycle, {vcn.ig_id}) ELSE lifecycle
         /\ IF ok THEN Goto("d_delete_subnet") ELSE Raise("IssueCommandError")
    /\ UNCHANGED <<use_vcn, vcn, network_id, route_rules, ingress, issued, call, tries,
                   polls, waited, mismatch, ed, invoked, overlap>>

DeleteInternetGateway ==
    /\ pc = "d_delete_ig"
    /\ oplog' = Log("internet-gateway delete", "DeleteInternetGateway", vcn.ig_id)
    /\ \E ok \in BOOLEAN :
         /\ faulted' = (faulted \/ ~ok)
         /\ lifecycle' = IF ok THEN Remove(lifecycle, {vcn.ig_id}) ELSE lifecycle
    /\ Goto("d_delete_subnet")
    /\ UNCHANGED <<use_vcn, vcn, network_id, route_rules, ingress, issued, call, tries,
                   polls, waited, mismatch, ed, invoked, overlap>>

DeleteSubnet ==
    /\ pc = "d_delete_subnet"
    /\ oplog' = Log("subnet delete", "DeleteSubnet", vcn.subnet_id)
    /\ \E ok \in BOOLEAN :
         /\ faulted' = (faulted \/ ~ok)
         /\ lifecycle' = IF ok THEN Remove(lifecycle, {vcn.subnet_id}) ELSE lifecycle
    /\ Goto("d_delete_vcn")
    /\ UNCHANGED <<use_vcn, vcn, network_id, route_rules, ingress, issued, call, tries,
                   polls, waited, mismatch, ed, invoked, overlap>>

\* a network delete after which the stack forgets its identifiers
VcnDeleteClearing ==
    /\ pc = "d_delete_vcn"
    /\ oplog' = Log("vcn delete", "_Delete", vcn.vcn_id)
    /\ \E ok \in BOOLEAN :
         /\ faulted' = (faulted \/ ~ok)
         /\ IF ok /\ Exists(vcn.vcn_id)
            THEN /\ lifecycle' = Remove(lifecycle, {vcn.vcn_id, DefaultRt(vcn.vcn_id),
                                                    DefaultSl(vcn.vcn_id)})
                 /\ route_rules' = <<>>
                 /\ ingress' = <<>>
            ELSE UNCHANGED <<lifecycle, route_rules, ingress>>
    /\ vcn' = [vcn EXCEPT !.ig_id = NULL, !.subnet_id = NULL, !.vcn_id = NULL]
    /\ Return
    /\ UNCHANGED <<use_vcn, network_id, issued, call, tries, polls, waited,
                   mismatch, ed, invoked, overlap>>

\* self.vcn.Delete(): the resource base class runs _Delete, the forced delete
\* of the network, whose result is not looked at
VcnDelete ==
    /\ pc = "d_delete_vcn"
    /\ oplog' = Log("vcn delete", "_Delete", vcn.vcn_id)
    /\ \E ok \in BOOLEAN :
         /\ faulted' = (faulted \/ ~ok)
         /\ IF ok /\ Exists(vcn.vcn_id)
            THEN /\ lifecycle' = Remove(lifecycle, {vcn.vcn_id, DefaultRt(vcn.vcn_id),
                                                    DefaultSl(vcn.vcn_id)})
                 /\ route_rules' = <<>>
                 /\ ingress' = <<>>
            ELSE UNCHANGED <<lifecycle, route_rules, ingress>>
    /\ Return
    /\ UNCHANGED <<use_vcn, vcn, network_id, issued, call, tries, polls, waited,
                   mismatch, ed, invoked, overlap>>

-----------------------------------------------------------------------------
(* OCIFirewall                                                             *)

\* values the callers of the firewall pass
FwEndPorts == {Some(8090)}
FwTypes == {None}

\* the firewall is asked for a port once the network was set up; a network
\* without a stack can be asked at any time
FirewallReady ==
    /\ pc = "idle"
    /\ CreateInvoked \/ ~use_vcn
    /\ Len(hist) < MaxCalls

\* "if not vm.network.vcn": the read of the attribute raises when it was
\* never set; a stack object is always true, so the logging branch is not taken
FirewallEnter(name, a) ==
    /\ call' = name
    /\ oplog' = <<>>
    /\ IF ~HasVcnAttr
       THEN /\ pc' = "idle"
            /\ exc' = "none"
            /\ hist' = Append(hist, [call |-> name, exc |-> "AttributeError"])
            /\ ed' = ed
       ELSE /\ pc' = "f_fetch"
            /\ UNCHANGED <<exc, hist>>
            /\ ed' = [ed EXCEPT !["main"].args = a]
    /\ UNCHANGED <<use_vcn, vcn, network_id, lifecycle, route_rules, ingress, issued,
                   tries, polls, faulted, waited, mismatch, invoked, overlap>>

AllowPort ==
    /\ FirewallReady
    /\ \E end_port \in FwEndPorts :
         FirewallEnter("AllowPort",
                       Args("6", Some(8080), end_port, Some("10.0.0.0/8"), None, None))

\* start_port is not passed and keeps the default of the method
AllowIcmp ==
    /\ FirewallReady
    /\ \E protocol_type \in FwTypes :
         FirewallEnter("AllowIcmp",
                       Args("1", Some(22), None, None, protocol_type, None))

FirewallFetch ==
    /\ pc = "f_fetch"
    /\ MainFetch(ed["main"].args, "f_write")

\* a firewall call that waits for the security list it has just written
FirewallWriteThenSecurityListWait ==
    /\ pc = "f_write"
    /\ MainWrite("c_sl_wait2")

FirewallWrite ==
    /\ pc = "f_write"
    /\ MainWrite("f_rt_wait")

-----------------------------------------------------------------------------
(* The orchestrator with its control plane                                 *)

Next ==
    \/ InvokeCreate
    \/ VcnCreate
    \/ WaitForVcnStatus
    \/ GetDefaultRouteTableId
    \/ GetDefaultSecurityListId
    \/ CreateSubnet
    \/ WaitForSubnetStatus
    \/ CreateInternetGateway
    \/ WaitForInternetGatewayStatus
    \/ UpdateRouteTable
    \/ WaitForRouteTableStatus
    \/ CreateAddTcpFetch
    \/ CreateAddTcpWrite
    \/ CreateAddIcmpFetch
    \/ CreateAddIcmpWrite
    \/ WaitForSecurityListStatus
    \/ CreateElse
    \/ CreateRetry
    \/ CreateGiveUp
    \/ InvokeDelete
    \/ ClearRouteTable
    \/ DeleteInternetGateway
    \/ DeleteSubnet
    \/ VcnDelete
    \/ AllowPort
    \/ AllowIcmp
    \/ FirewallFetch
    \/ FirewallWrite
    \/ \E id \in DOMAIN lifecycle : Settle(id)

Spec == Init /\ [][Next]_vars

-----------------------------------------------------------------------------
(* AddSecurityListIngressRule called directly on a network that is set up  *)

\* a network after an undisturbed Create, its security list still empty
SetUp ==
    /\ use_vcn = TRUE
    /\ vcn = [status |-> Some("AVAILABLE"), cidr_block |-> Some(VcnCidr),
              vcn_id |-> Id("vcn", 1), subnet_id |-> Id("subnet", 1),
              ig_id |-> Id("ig", 1), rt_id |-> Id("rt", 1),
              security_list_id |-> Id("sl", 1), created |-> TRUE]
    /\ network_id = Id("subnet", 1)
    /\ lifecycle = PreExisting
    /\ route_rules = <<[cidrBlock |-> AnyCidr, networkEntityId |-> Id("ig", 1)]>>
    /\ ingress = <<>>
    /\ issued = [vcn |-> 1, subnet |-> 1, ig |-> 1]
    /\ call = "none"
    /\ tries = 0
    /\ polls = 0
    /\ exc = "none"
    /\ oplog = <<>>
    /\ hist = <<>>
    /\ faulted = FALSE
    /\ waited = [by |-> "none", polls |-> 0, outcome |-> "none"]
    /\ mismatch = 0
    /\ invoked = <<>>
    /\ overlap = FALSE

\* the calls the callers of the editor make
EditArgs ==
    {Args("6", Some(22), None, None, None, None),
     Args("6", Some(443), None, None, None, None),
     Args("6", Some(8080), Some(8090), Some("10.0.0.0/8"), None, None),
     Args("1", Some(22), None, None, None, None),
     Args("1", Some(22), None, None, Some(8), Some(0)),
     Args("1", Some(22), None, None, Some(8), None)}

InitEditor ==
    /\ SetUp
    /\ pc = "editor"
    /\ ed = [c \in Callers |-> NoEdit]

\* caller c enters the method and fetches the current rules
EditFetch(c) ==
    /\ pc = "editor"
    /\ ed[c].at = "idle"
    /\ Len(invoked) < MaxEdits
    /\ \E a \in EditArgs :
         /\ ed' = Fetched(c, a)
         /\ invoked' = Append(invoked, [caller |-> c, args |-> a])
    /\ overlap' = (overlap \/ \E d \in Callers \ {c} : ed[d].at = "fetched")
    /\ UNCHANGED <<use_vcn, vcn, network_id, lifecycle, route_rules, ingress, issued,
                   pc, call, tries, polls, exc, oplog, hist, faulted, waited, mismatch>>

\* caller c builds its rule, appends it and writes the list back
EditWrite(c) ==
    /\ pc = "editor"
    /\ ed[c].at = "fetched"
    /\ WriteBack(c)
    /\ UNCHANGED <<use_vcn, vcn, network_id, route_rules, issued, pc, call, tries,
                   polls, exc, oplog, hist, faulted, waited, mismatch, invoked, overlap>>

NextEditor == \E c \in Callers : EditFetch(c) \/ EditWrite(c)

SpecEditor == InitEditor /\ [][NextEditor]_vars

-----------------------------------------------------------------------------
(* One AddSecurityListIngressRule call for every combination of arguments  *)

Protocols == {"6", "17", "1"}
StartPorts == {None, Some(0), Some(22), Some(443)}
EndPorts == {None, Some(0), Some(443)}
SourceRanges == {None, Some(""), Some("10.0.0.0/8")}
IcmpTypes == {None, Some(0), Some(8)}
IcmpCodes == {None, Some(0), Some(4)}

RuleArgs ==
    {Args(p, s, e, r, t, k) :
        p \in Protocols, s \in StartPorts, e \in EndPorts, r \in SourceRanges,
        t \in IcmpTypes, k \in IcmpCodes}

InitRule ==
    /\ SetUp
    /\ pc = "rule"
    /\ \E a \in RuleArgs :
         ed = [c \in Callers |-> IF c = "main" THEN [NoEdit EXCEPT !.at = "called", !.args = a]
                                 ELSE NoEdit]

RuleFetch ==
    /\ pc = "rule"
    /\ ed["main"].at = "called"
    /\ ed' = Fetched("main", ed["main"].args)
    /\ invoked' = Append(invoked, [caller |-> "main", args |-> ed["main"].args])
    /\ UNCHANGED <<use_vcn, vcn, network_id, lifecycle, route_rules, ingress, issued,
                   pc, call, tries, polls, exc, oplog, hist, faulted, waited, mismatch,
                   overlap>>

RuleWrite ==
    /\ pc = "rule"
    /\ ed["main"].at = "fetched"
    /\ WriteBack("main")
    /\ UNCHANGED <<use_vcn, vcn, network_id, route_rules, issued, pc, call, tries,
                   polls, exc, oplog, hist, faulted, waited, mismatch, invoked, overlap>>

NextRule == RuleFetch \/ RuleWrite

SpecRule == InitRule /\ [][NextRule]_vars

-----------------------------------------------------------------------------
(* Properties                                                              *)

IdFields == {"vcn_id", "subnet_id", "ig_id", "rt_id", "security_list_id"}

\* the last completed top-level call was `name`, and nothing runs
Finished(name) ==
    /\ pc = "idle"
    /\ hist # <<>>
    /\ hist[Len(hist)].call = name

\* Create was the only call so far and has returned without an exception
CreateSucceeded ==
    /\ pc = "idle"
    /\ Len(hist) = 1
    /\ hist[1] = [call |-> "Create", exc |-> "none"]

TcpSshRule ==
    [source |-> "0.0.0.0/0", icmp_options |-> None, protocol |-> "6",
     is_stateless |-> FALSE, tcp_options |-> Some([max |-> 22, min |-> 22]),
     udp_options |-> None]

IcmpAnyRule ==
    [source |-> "0.0.0.0/0", icmp_options |-> None, protocol |-> "1",
     is_stateless |-> FALSE, tcp_options |-> None, udp_options |-> None]

\* C1: when Create() with use_vcn set has returned on a control plane that
\* failed no command, all five identifiers are set and the ingress rules are
\* exactly the two rules of Create, TCP 22-22 and unrestricted ICMP, both
\* from 0.0.0.0/0.
C1_CreateYieldsStackAndTwoRules ==
    (use_vcn /\ ~faulted /\ CreateSucceeded) =>
        /\ \A f \in IdFields : vcn[f] # NULL
        /\ ingress = <<TcpSshRule, IcmpAnyRule>>

\* C2: when Create() without use_vcn has ended, it has returned normally
\* with vcn_id and subnet_id looked up, the other three identifiers null,
\* and only the two list requests issued.
C2_AttachLooksUpNetworkAndSubnet ==
    (~use_vcn /\ Finished("Create")) =>
        /\ hist[Len(hist)].exc = "none"
        /\ vcn.vcn_id # NULL
        /\ vcn.subnet_id # NULL
        /\ vcn.ig_id = NULL /\ vcn.rt_id = NULL /\ vcn.security_list_id = NULL
        /\ \A i \in 1..Len(oplog) : oplog[i].op \in {"vcn list", "subnet list"}

\* C3: on a network without a stack, AllowPort and AllowIcmp issue no
\* request to the control plane and return without an exception.
C3_NoStackFirewallIsSilentNoOp ==
    (~use_vcn /\ (Finished("AllowPort") \/ Finished("AllowIcmp"))) =>
        /\ oplog = <<>>
        /\ hist[Len(hist)].exc = "none"

\* every caller of the editor is outside the method
EditorsIdle == \A c \in Callers : ed[c].at = "idle"

\* C4: when the direct calls did not interleave and all have ended, the
\* ingress list holds one rule per call, in call order, each the rule built
\* from that call's arguments.
C4_SequentialAddsAppendInCallOrder ==
    (pc = "editor" /\ ~overlap /\ EditorsIdle) =>
        /\ Len(ingress) = Len(invoked)
        /\ \A i \in 1..Len(invoked) :
              /\ JsonLoadsOk(invoked[i].args)
              /\ ingress[i] = BuildRule(invoked[i].args)

\* C5: every rule in the ingress list has at most one option block: an
\* ICMP rule has no port range, a rule of another protocol has no ICMP
\* type/code, and is-stateless is false.
C5_OptionBlocksExclusive ==
    \A i \in 1..Len(ingress) :
        /\ ingress[i].protocol = "1" => ingress[i].tcp_options = None
        /\ ingress[i].protocol # "1" => ingress[i].icmp_options = None
        /\ ~(ingress[i].icmp_options # None /\ ingress[i].tcp_options # None)
        /\ ingress[i].is_stateless = FALSE

\* an ICMP call that was given a start port has appended its rule
C5_Witness ==
    /\ pc = "rule"
    /\ Len(ingress) = 1
    /\ ingress[1].protocol = "1"
    /\ ingress[1].icmp_options # None
    /\ invoked[1].args.start_port = Some(443)

\* C6: a wait fails with a state mismatch only after it has polled up to
\* its ceiling.
C6_WaitFailsOnlyAtCeiling ==
    waited.outcome = "AssertionError" => waited.polls = MaxPolls

\* C7: when Delete() has returned right after a successful Create() with
\* use_vcn set, on a control plane that failed no command, the route rules
\* are empty and no gateway, subnet or network is left.
C7_TeardownLeavesNothing ==
    (/\ use_vcn
     /\ ~faulted
     /\ pc = "idle"
     /\ hist = <<[call |-> "Create", exc |-> "none"], [call |-> "Delete", exc |-> "none"]>>)
    => /\ route_rules = <<>>
       /\ Held("ig") = {}
       /\ Held("subnet") = {}
       /\ Held("vcn") = {}

TeardownOps ==
    <<"route-table update", "internet-gateway delete", "subnet delete", "vcn delete">>
TeardownMethods ==
    <<"ClearRouteTable", "DeleteInternetGateway", "DeleteSubnet", "_Delete">>

\* C8: while Delete() with use_vcn runs, the requests issued so far are the
\* first requests of: empty the route table, delete the gateway, delete the
\* subnet, delete the network (no lifecycle read among them); when it has
\* ended, all four were issued and it returned without an exception, whether or
\* not the control plane failed one of them.
C8_TeardownFourOpsInOrder ==
    (use_vcn /\ call = "Delete") =>
        /\ Len(oplog) <= Len(TeardownOps)
        /\ \A i \in 1..Len(oplog) :
              /\ oplog[i].op = TeardownOps[i]
              /\ oplog[i].by = TeardownMethods[i]
        /\ pc = "idle" =>
              /\ Len(oplog) = Len(TeardownOps)
              /\ hist[Len(hist)] = [call |-> "Delete", exc |-> "none"]

\* Delete() has returned although the gateway delete failed: the gateway is
\* still there, the subnet is gone
C8_Witness ==
    /\ use_vcn
    /\ Finished("Delete")
    /\ faulted
    /\ Len(oplog) = Len(TeardownOps)
    /\ Exists(vcn.ig_id)
    /\ ~Exists(vcn.subnet_id)

CreationOps ==
    {"vcn create", "subnet create", "internet-gateway create", "route-table update",
     "security-list update"}
DeleteOps == {"internet-gateway delete", "subnet delete", "vcn delete"}

\* this step of a running Create() issues a request
CreateIssues ==
    /\ call = "Create"
    /\ call' = "Create"
    /\ Len(oplog') > Len(oplog)

RacedPair ==
    /\ pc = "editor"
    /\ Len(invoked) = 2
    /\ invoked[1].caller # invoked[2].caller
    /\ overlap
    /\ EditorsIdle
    /\ \A c \in Callers : ed[c].exc = "none"

\* C10: after such a pair of calls the list holds one rule only, the rule of
\* one of the two callers, so the other caller's rule is lost when the two
\* rules differ; and a direct call ends with an exception only when its own
\* rule text does not parse, never because of the other caller.
C10_RaceLosesOneRule ==
    /\ RacedPair =>
          /\ Len(ingress) = 1
          /\ \E c \in Callers : ingress[1] = BuildRule(ed[c].args)
          /\ BuildRule(ed["main"].args) # BuildRule(ed["peer"].args) =>
                \E c \in Callers : ingress[1] # BuildRule(ed[c].args)
    /\ pc = "editor" =>
          \A c \in Callers : ed[c].exc # "none" => ~JsonLoadsOk(ed[c].args)

\* both calls ended normally and the rule of the first caller is missing
C10_Witness ==
    /\ RacedPair
    /\ invoked[1].args = Args("6", Some(22), None, None, None, None)
    /\ invoked[2].args = Args("6", Some(443), None, None, None, None)
    /\ \A i \in 1..Len(ingress) : ingress[i] # BuildRule(invoked[1].args)

FirewallCalls == {"AllowPort", "AllowIcmp"}

\* the requests of one firewall call on a network with a stack
FirewallOps ==
    <<[op |-> "security-list get", by |-> "GetSecurityListFromId"],
      [op |-> "security-list update", by |-> "AddSecurityListIngressRule"],
      [op |-> "route-table get", by |-> "WaitForRouteTableStatus"]>>

\* C11: a firewall call on a network with a stack issues, in this order, the
\* fetch of the security list, the write of the list with the new rule
\* (protocol "6" for AllowPort, "1" for AllowIcmp) and then one read of the
\* route table's lifecycle state, never of the security list's; it returns
\* without an exception only after that read found the route table in the
\* expected set.
C11_FirewallWritesThenPollsRouteTable ==
    (use_vcn /\ call \in FirewallCalls) =>
        /\ Len(oplog) <= Len(FirewallOps)
        /\ \A i \in 1..Len(oplog) :
              /\ oplog[i].op = FirewallOps[i].op
              /\ oplog[i].by = FirewallOps[i].by
              /\ oplog[i].id = IF i = 3 THEN vcn.rt_id ELSE vcn.security_list_id
        /\ ed["main"].args.protocol = IF call = "AllowPort" THEN "6" ELSE "1"
        /\ Len(oplog) >= 2 =>
              /\ ingress # <<>>
              /\ ingress[Len(ingress)] = BuildRule(ed["main"].args)
        /\ (pc = "idle" /\ hist[Len(hist)].exc = "none") =>
              /\ Len(oplog) = Len(FirewallOps)
              /\ waited.by = "WaitForRouteTableStatus"
              /\ waited.outcome = "ok"
              /\ vcn.status = Some("AVAILABLE")

\* after a successful Create, AllowPort has returned normally while the security list it wrote is still
\* PROVISIONING: only the route table was looked at
C11_Witness ==
    /\ use_vcn
    /\ Finished("AllowPort")
    /\ hist[1] = [call |-> "Create", exc |-> "none"]
    /\ hist[Len(hist)].exc = "none"
    /\ Len(oplog) = Len(FirewallOps)
    /\ ingress[Len(ingress)].protocol = "6"
    /\ lifecycle[vcn.security_list_id] = "PROVISIONING"

\* C12: in every state the stack can be in, an identifier that is set has
\* its ancestors of the creation order set: the route table, security list,
\* subnet and gateway ids only with the network id, and the gateway id only
\* with the subnet, route table and security list ids.
C12_ChildIdsHaveAncestors ==
    /\ \A f \in {"rt_id", "security_list_id", "subnet_id", "ig_id"} :
          vcn[f] # NULL => vcn.vcn_id # NULL
    /\ vcn.ig_id # NULL =>
          \A f \in {"subnet_id", "rt_id", "security_list_id"} : vcn[f] # NULL

\* Create() has given up with a stack that is built up to the subnet only
C12_Witness ==
    /\ Finished("Create")
    /\ hist[Len(hist)].exc = "AssertionError"
    /\ vcn.vcn_id # NULL
    /\ vcn.subnet_id # NULL
    /\ vcn.ig_id = NULL

\* how often the running call has issued request `op`
Issued(log, op) == Cardinality({i \in 1..Len(log) : log[i].op = op})

\* C13: over one Create(), re-executions by the retry wrapper included, an
\* identifier that is set is never given another value, and each of the
\* network, subnet and gateway creations is issued at most once.
C13_IdsAssignedAndCreatedOnce ==
    [][(call = "Create" /\ call' = "Create") =>
          /\ \A f \in IdFields : vcn[f] # NULL => vcn'[f] = vcn[f]
          /\ \A op \in {"vcn create", "subnet create", "internet-gateway create"} :
                Issued(oplog', op) <= 1]_vars

\* the request issued last by the running call
LastIssued ==
    IF oplog = <<>> THEN [op |-> "none", by |-> "none", id |-> NULL]
    ELSE oplog[Len(oplog)]

\* the request issued last was a read by wait method w, and that wait returned
Passed(w) == LastIssued.by = w /\ waited.by = w /\ waited.outcome = "ok"

\* the request issued last was a read by some wait method that raised
WaitRaised ==
    /\ waited.by = LastIssued.by
    /\ waited.outcome \in {"AssertionError", "CommandError"}

CreateWaits ==
    {"WaitForVcnStatus", "WaitForSubnetStatus", "WaitForInternetGatewayStatus",
     "WaitForRouteTableStatus", "WaitForSecurityListStatus"}

\* this step of Create() is a read by one of the wait methods in ws, and
\* Create() goes on with the statement after the wait
WaitReads(ws) == CreateIssues /\ oplog'[Len(oplog')].by \in ws
GoesOn == pc' \notin {pc, "c_except"}

\* C15 as stated: a read of the network wait or of the subnet wait that
\* observes any state of the recognized set, PROVISIONING included, makes
\* the wait succeed, and Create() goes on with the next step.
C15_WaitsAcceptAnyRecognizedState ==
    [][(/\ WaitReads({"WaitForVcnStatus", "WaitForSubnetStatus"})
        /\ vcn'.status # None
        /\ vcn'.status[1] \in VCN_CREATE_STATUSES \cap SUBNET_CREATE_STATUSES)
       => GoesOn]_vars

\* C15 amended: a read of any wait of Create() makes the wait succeed, and
\* Create() go on, exactly when the observed state is AVAILABLE; on a
\* resource observed as PROVISIONING the wait reads again or raises.
C15_WaitsAcceptOnlyAvailable ==
    [][WaitReads(CreateWaits) => (GoesOn <=> vcn'.status = Some("AVAILABLE"))]_vars

\* the network wait has raised on a network that it observed as PROVISIONING
C15_Witness ==
    /\ call = "Create"
    /\ pc = "c_except"
    /\ waited.by = "WaitForVcnStatus"
    /\ waited.outcome = "AssertionError"
    /\ vcn.status = Some("PROVISIONING")
    /\ lifecycle[vcn.vcn_id] = "PROVISIONING"

\* the single call of AddSecurityListIngressRule has ended
RuleCallEnded == pc = "rule" /\ invoked # <<>> /\ ed["main"].at = "idle"

\* C16: a call for protocol "1" ends without an exception with its rule
\* written; the rule carries the ICMP type and code when the caller gave
\* both, and the no-restriction marker when the caller gave none or only one
\* of them.
C16_IcmpOptionsOnlyWhenBothSupplied ==
    (RuleCallEnded /\ invoked[1].args.protocol = "1") =>
        LET a == invoked[1].args IN
        /\ ed["main"].exc = "none"
        /\ Len(ingress) = 1
        /\ ingress[1].icmp_options =
              IF a.protocol_type # None /\ a.protocol_code # None
              THEN Some([code |-> a.protocol_code[1], type |-> a.protocol_type[1]])
              ELSE None

\* C17: a call for a protocol other than "1" that was given a start port,
\* whatever port of the set it is, writes a rule with the port range min =
\* start port, max = end port (the start port when no end port was given)
\* and with the given source (0.0.0.0/0 when no source was given).
C17_PortRangeWhenStartPortSupplied ==
    (/\ RuleCallEnded
     /\ invoked[1].args.protocol # "1"
     /\ invoked[1].args.start_port # None
     /\ invoked[1].args.end_port # Some(0)
     /\ invoked[1].args.source_range # Some(""))
    => LET a == invoked[1].args IN
       /\ ed["main"].exc = "none"
       /\ Len(ingress) = 1
       /\ ingress[1].tcp_options =
             Some([max |-> IF a.end_port = None THEN a.start_port[1] ELSE a.end_port[1],
                   min |-> a.start_port[1]])
       /\ ingress[1].source =
             IF a.source_range = None THEN "0.0.0.0/0" ELSE a.source_range[1]

\* the stack was created by a Create() that returned normally
StackCreated == hist # <<>> /\ hist[1] = [call |-> "Create", exc |-> "none"]

\* C18 as stated: when Delete() has returned for a stack created with
\* use_vcn, the gateway, subnet and network identifiers are null.
C18_DeleteClearsIdentifiers ==
    (use_vcn /\ StackCreated /\ Finished("Delete")) =>
        /\ vcn.ig_id = NULL
        /\ vcn.subnet_id = NULL
        /\ vcn.vcn_id = NULL

\* C18 amended: no step of Delete() changes an identifier of the stack, and
\* each request of a Delete(), the first or a later one, carries the
\* identifier the stack holds: route table, gateway, subnet, network, all
\* non-null for a stack that was created.
C18_DeleteKeepsIdentifiers ==
    [][(use_vcn /\ call' = "Delete") =>
          /\ \A f \in IdFields : vcn'[f] = vcn[f]
          /\ Len(oplog') > Len(oplog) =>
                LET n == Len(oplog') IN
                /\ n <= 4
                /\ oplog'[n].id = <<vcn.rt_id, vcn.ig_id, vcn.subnet_id, vcn.vcn_id>>[n]
                /\ StackCreated => oplog'[n].id # NULL]_vars

\* a second Delete() has issued its four requests with the identifiers of
\* the gateway, subnet and network that the first Delete() removed
C18_Witness ==
    /\ use_vcn
    /\ ~faulted
    /\ pc = "idle"
    /\ hist = <<[call |-> "Create", exc |-> "none"], [call |-> "Delete", exc |-> "none"],
                [call |-> "Delete", exc |-> "none"]>>
    /\ Len(oplog) = 4
    /\ oplog[2].id = vcn.ig_id /\ vcn.ig_id # NULL /\ ~Exists(vcn.ig_id)
    /\ oplog[3].id = vcn.subnet_id /\ vcn.subnet_id # NULL /\ ~Exists(vcn.subnet_id)
    /\ oplog[4].id = vcn.vcn_id /\ vcn.vcn_id # NULL /\ ~Exists(vcn.vcn_id)

\* C19: every request of a Create() with use_vcn carries an identifier the
\* stack already holds: the default-id reads and the subnet and gateway
\* creations the network id, the route table update the route table id with
\* the single rule 0.0.0.0/0 -> gateway id replacing all rules, each read of
\* a lifecycle state the id of its resource, and every security list fetch,
\* write and wait the security list id.
C19_RequestsUsePopulatedIds ==
    [][(use_vcn /\ CreateIssues) =>
          LET new == oplog'[Len(oplog')] IN
          CASE new.op = "vcn create" -> new.id = NULL
            [] new.op \in {"vcn get", "subnet create", "internet-gateway create"} ->
                 new.id = vcn.vcn_id /\ vcn.vcn_id # NULL
            [] new.op = "subnet get" ->
                 new.id = vcn.subnet_id /\ vcn.subnet_id # NULL
            [] new.op = "internet-gateway get" ->
                 new.id = vcn.ig_id /\ vcn.ig_id # NULL
            [] new.op = "route-table update" ->
                 /\ new.id = vcn.rt_id /\ vcn.rt_id # NULL
                 /\ vcn.ig_id # NULL
                 /\ route_rules' = <<[cidrBlock |-> "0.0.0.0/0",
                                      networkEntityId |-> vcn.ig_id]>>
            [] new.op = "route-table get" ->
                 new.id = vcn.rt_id /\ vcn.rt_id # NULL
            [] new.op \in {"security-list get", "security-list update"} ->
                 new.id = vcn.security_list_id /\ vcn.security_list_id # NULL
            [] OTHER -> FALSE]_vars

\* the second execution of Create's body has replaced the route of the first
\* by the route to its own gateway
C19_Witness ==
    /\ call = "Create"
    /\ tries = 2
    /\ pc = "c_rt_wait"
    /\ vcn.ig_id = Id("ig", 2)
    /\ oplog[Len(oplog)].id = vcn.rt_id
    /\ route_rules = <<[cidrBlock |-> "0.0.0.0/0", networkEntityId |-> Id("ig", 2)]>>

\* C20: a Delete() on a network without use_vcn returns at once without an
\* exception and without a request to the control plane; the network that
\* was there before, its subnet, gateway, route table and route rules are as
\* they were.
C20_DetachedDeleteIssuesNothing ==
    (~use_vcn /\ call = "Delete") =>
        /\ oplog = <<>>
        /\ pc = "idle"
        /\ hist[Len(hist)] = [call |-> "Delete", exc |-> "none"]
        /\ lifecycle = [x \in {Id("vcn", 1), Id("subnet", 1), Id("ig", 1), Id("rt", 1),
                                Id("sl", 1)} |-> "AVAILABLE"]
        /\ route_rules = <<[cidrBlock |-> "0.0.0.0/0", networkEntityId |-> Id("ig", 1)]>>

\* Delete() has returned on a network without use_vcn
C20_Witness ==
    /\ ~use_vcn
    /\ Finished("Delete")
    /\ oplog = <<>>
    /\ Exists(Id("vcn", 1))

====
